---------------------------- MODULE Spec2Model ----------------------------
(***************************************************************************)
(* A model of interpolate_racmo_daily (SMBcorr/racmo_interp_daily.py): the *)
(* loader, the Gaussian smoother, the convex-hull locator and the temporal *)
(* resolver, as one sequential pipeline whose position is pc.              *)
(*                                                                         *)
(* Numbers.  Field values are exact rationals [n, d] (the code computes in *)
(* IEEE doubles; rounding is not modelled).  Decimal-year times are whole  *)
(* numbers of ticks, TicksPerYear ticks to a year.  Native coordinates of  *)
(* query points are in half grid spacings, so that a point is a grid node  *)
(* or the midpoint between two nodes.  Python's 0-based index k is the     *)
(* model's index k+1.                                                      *)
(*                                                                         *)
(* Inputs.  An argument is drawn where the code first reads it: MODEL,     *)
(* VARIABLE and the years of floor(tdec) at the start, the directory's     *)
(* listing at os.listdir, a file's values when it is read, the points'     *)
(* times and coordinates at line 174, FILL_VALUE at line 268.  The query   *)
(* times are drawn in non-decreasing order.                                *)
(***************************************************************************)
EXTENDS Integers, Sequences, FiniteSets, TLC

VARIABLES
    pc,           \* position in the pipeline
    err,          \* the exception that ended the call ("" while none)
    MODEL,        \* argument MODEL
    VARNAME,      \* argument VARIABLE (a reserved word here)
    SY, EY,       \* first and last year of floor(tdec) (lines 67-68), as tokens
    input_files,  \* the matched file names (line 78)
    disk,         \* length of the time dimension of each matched file on disk
    nt,           \* number of time steps counted (lines 80-87)
    c,            \* the counter for filling variables (line 103)
    fi,           \* position of the read loop in sorted(input_files)
    tmp,          \* the last file's raw values (line 111)
    fd,           \* fd[VARIABLE].data, fd[VARIABLE].mask, fd['time']
    gs,           \* gs['mask'], retained (ii,jj), gs[VARIABLE], gs['cumulative']
    temp,         \* the running cumulative sum (line 148)
    k,            \* the time loop's index t (line 150), 1-based
    q,            \* the query: tdec, ix, iy, valid
    out,          \* interp_data: data, mask, interpolation, fill_value
    FILL_VALUE    \* argument FILL_VALUE (given: FALSE when None)

vars == <<pc, err, MODEL, VARNAME, SY, EY, input_files, disk, nt, c, fi, tmp,
          fd, gs, temp, k, q, out, FILL_VALUE>>

-----------------------------------------------------------------------------
(* Bounds of the model *)

NX == 3
NY == 2
MaxSteps == 2
MaxFiles == 2
KernelRadius == 1

(* the time steps a yearly file may hold *)
StepCounts == 2..MaxSteps
(* ticks between two daily steps, and ticks in a year: a step sits on an   *)
(* odd tick, so that a year has ticks before its first and after its last  *)
StepTicks == 2
TicksPerYear == StepTicks * MaxSteps + 1

Xs == 0..(NX-1)
Ys == 0..(NY-1)
Cells == Ys \X Xs

-----------------------------------------------------------------------------
(* Exact arithmetic standing for the code's floating point *)

Abs(a) == IF a < 0 THEN -a ELSE a

RECURSIVE GCD(_, _)
GCD(a, b) == IF b = 0 THEN a ELSE GCD(b, a % b)

Rat(n, d) ==
    LET g == GCD(Abs(n), Abs(d))
        s == IF d < 0 THEN -1 ELSE 1
    IN  [n |-> (s * n) \div g, d |-> (s * d) \div g]

RInt(i) == [n |-> i, d |-> 1]
RAdd(a, b) ==
    LET g == GCD(a.d, b.d)
    IN  Rat(a.n * (b.d \div g) + b.n * (a.d \div g), (a.d \div g) * b.d)
RMul(a, b) ==
    LET g1 == GCD(Abs(a.n), b.d)
        g2 == GCD(Abs(b.n), a.d)
    IN  Rat((a.n \div g1) * (b.n \div g2), (a.d \div g2) * (b.d \div g1))
RDiv(a, b) == RMul(a, IF b.n < 0 THEN [n |-> -b.d, d |-> -b.n] ELSE [n |-> b.d, d |-> b.n])
Zero == RInt(0)

RECURSIVE SumSeq(_)
SumSeq(s) == IF s = <<>> THEN 0 ELSE Head(s) + SumSeq(Tail(s))

RECURSIVE RSumSeq(_)
RSumSeq(s) == IF s = <<>> THEN Zero ELSE RAdd(Head(s), RSumSeq(Tail(s)))

RECURSIVE SetToSeq(_)
SetToSeq(S) ==
    IF S = {} THEN <<>>
    ELSE LET e == CHOOSE e \in S : TRUE IN <<e>> \o SetToSeq(S \ {e})

-----------------------------------------------------------------------------
(* File names, as sequences of tokens; "." is the one-character token *)

Models == {"FGRN055", "XANT27"}
Variables == {"smb", "hgtsrf"}
Years == {"2000", "2001"}
YearNum(y) == IF y = "2000" THEN 2000 ELSE 2001
YearsFrom(sy, ey) == IF sy = ey THEN <<sy>> ELSE <<"2000", "2001">>

FullName(v, y) == <<"RACMO2", ".", "3p2_FGRN055_", v, "_daily_", y, ".", "nc">>
BareName(y) == <<y, ".", "nc">>
NameUniverse ==
    {FullName(v, y) : v \in Variables, y \in Years} \cup {BareName(y) : y \in Years}
Directories == {d \in SUBSET NameUniverse : Cardinality(d) <= MaxFiles}

(* YRS = '|'.join(years) *)
RECURSIVE JoinYears(_)
JoinYears(ys) ==
    IF Len(ys) = 1 THEN <<ys[1]>> ELSE <<ys[1], "|">> \o JoinYears(Tail(ys))

(* file_pattern.format(VARIABLE, YRS) *)
FilePattern(v, ys) ==
    <<"RACMO2", ".", "3p2_FGRN055_", v, "_daily_">> \o JoinYears(ys) \o <<".", "nc">>

(* the alternatives of a pattern: "|" binds weaker than concatenation *)
RECURSIVE Alternatives(_)
Alternatives(p) ==
    IF \E i \in 1..Len(p) : p[i] = "|"
    THEN LET i == CHOOSE i \in 1..Len(p) :
                      p[i] = "|" /\ \A j \in 1..(i-1) : p[j] # "|"
         IN  {SubSeq(p, 1, i-1)} \cup Alternatives(SubSeq(p, i+1, Len(p)))
    ELSE {p}

(* rx.match(fi): some alternative matches a prefix of the name *)
RxMatch(p, name) ==
    \E a \in Alternatives(p) :
        /\ Len(a) <= Len(name)
        /\ \A i \in 1..Len(a) : IF a[i] = "." THEN name[i] \in {"."} ELSE a[i] = name[i]

(* character order of the tokens' first differing characters *)
TokenRank(tok) ==
    CASE tok = "." -> 1
      [] tok = "2000" -> 2
      [] tok = "2001" -> 3
      [] tok = "3p2_FGRN055_" -> 4
      [] tok = "RACMO2" -> 5
      [] tok = "_daily_" -> 6
      [] tok = "hgtsrf" -> 7
      [] tok = "nc" -> 8
      [] tok = "smb" -> 9

RECURSIVE NameLess(_, _)
NameLess(a, b) ==
    IF a = <<>> THEN b # <<>>
    ELSE IF b = <<>> THEN FALSE
    ELSE IF Head(a) = Head(b) THEN NameLess(Tail(a), Tail(b))
    ELSE TokenRank(Head(a)) < TokenRank(Head(b))

(* sorted(input_files) *)
RECURSIVE Sorted(_)
Sorted(S) ==
    IF S = {} THEN <<>>
    ELSE LET m == CHOOSE m \in S : \A o \in S \ {m} : NameLess(m, o)
         IN  <<m>> \o Sorted(S \ {m})

(* the year a file's name carries *)
YearOf(name) == IF Len(name) = 3 THEN name[1] ELSE name[6]

-----------------------------------------------------------------------------
(* What a file holds *)

(* _FillValue of the variable *)
fv == -9

(* scale_factor (lines 92-95) *)
ScaleFactor(v) == IF v = "hgtsrf" THEN 86400 ELSE 1

(* A file's field: at step j the cells with x + y >= cut are fill, and at   *)
(* step dipStep (0: none) the cells with x + y >= dipCut, dipCut < cut.     *)
(* The cuts: no cell valid, one, three, all.                                *)
CutLevels == {0, 1, 2, NX+NY-1}
Contents ==
    {[cut |-> cu, dipStep |-> ds, dipCut |-> dc] :
        cu \in CutLevels, ds \in 0..MaxSteps, dc \in CutLevels}

ContentsOf(n) ==
    {ct \in Contents :
        /\ ct.dipStep <= n
        /\ IF ct.dipStep = 0 THEN ct.dipCut = 0 ELSE ct.dipCut < ct.cut}

CellIdx(cell) == cell[1] * NX + cell[2]

(* fileID.variables[VARIABLE][:] of the file: n steps of ny x nx values,  *)
(* the fill value where the file has no data.  The values differ from cell  *)
(* to cell, step to step and file to file; those of hgtsrf, a rate per      *)
(* second, are whole numbers of 1/86400.                                    *)
RawField(name, v, n, ct) ==
    [j \in 1..n |->
        [cell \in Cells |->
            LET cutj == IF j = ct.dipStep THEN ct.dipCut ELSE ct.cut
            IN  IF cell[1] + cell[2] >= cutj THEN RInt(fv)
                ELSE Rat(1 + CellIdx(cell) + NX * NY * (j-1)
                           + 100 * (YearNum(YearOf(name)) - 2000)
                           + (IF Len(name) = 3 THEN 50 ELSE 0),
                         ScaleFactor(v))]]

(* fileID.variables['time'][:]: the steps' offsets from the file's epoch *)
DeltaTime(n) == [j \in 1..n |-> 1 + StepTicks * (j-1)]

(* convert_calendar_decimal(convert_julian(epoch_julian + delta_time)),    *)
(* the epoch being the first day of the file's year                        *)
DecimalYear(name, delta) == YearNum(YearOf(name)) * TicksPerYear + delta

-----------------------------------------------------------------------------
(* Loader *)

(* a[c:c+t] = vals, for a 1-based sequence a and Python's 0-based c *)
SliceAssign(a, cc, vals) ==
    [i \in 1..Len(a) |->
        IF i > cc /\ i <= cc + Len(vals) THEN vals[i - cc] ELSE a[i]]

ZeroField == [cell \in Cells |-> Zero]
NoMask == [cell \in Cells |-> FALSE]
Filled(n, x) == [i \in 1..n |-> x]

NoFd == [data |-> <<>>, mask |-> <<>>, time |-> <<>>]
NoGs == [mask |-> <<>>, retained |-> {}, data |-> <<>>, vmask |-> <<>>,
         cum |-> <<>>, cmask |-> <<>>]
NoQuery == [tdec |-> <<>>, ix |-> <<>>, iy |-> <<>>, valid |-> <<>>]
NoOut == [data |-> <<>>, mask |-> <<>>, interpolation |-> <<>>, fill_value |-> 0]

Init ==
    /\ pc = "resolve"
    /\ err = ""
    /\ MODEL \in Models
    /\ VARNAME \in Variables
    /\ SY \in Years
    /\ EY \in {y \in Years : YearNum(SY) <= YearNum(y)}
    /\ input_files = {}
    /\ disk = <<>>
    /\ nt = 0
    /\ c = 0
    /\ fi = 0
    /\ tmp = <<>>
    /\ fd = NoFd
    /\ gs = NoGs
    /\ temp = <<>>
    /\ k = 0
    /\ q = NoQuery
    /\ out = NoOut
    /\ FILL_VALUE = [given |-> FALSE, value |-> 0]

PatternBoundAny(m) == TRUE

(* lines 71-74: file_pattern and DIRECTORY are bound for FGRN055 only *)
PatternBound(m) == m = "FGRN055"

(* lines 66-77: line 77 reads file_pattern *)
ResolvePattern ==
    /\ pc = "resolve"
    /\ IF PatternBound(MODEL)
       THEN pc' = "list" /\ err' = err
       ELSE pc' = "error" /\ err' = "UnboundLocalError"
    /\ UNCHANGED <<MODEL, VARNAME, SY, EY, input_files, disk, nt, c, fi, tmp,
                   fd, gs, temp, k, q, out, FILL_VALUE>>

(* line 78: os.listdir(DIRECTORY), filtered by rx.match *)
ListFiles ==
    /\ pc = "list"
    /\ \E dir \in Directories :
         /\ input_files' = {f \in dir : RxMatch(FilePattern(VARNAME, YearsFrom(SY, EY)), f)}
         /\ disk' \in [input_files' -> StepCounts]
    /\ pc' = "count"
    /\ UNCHANGED <<err, MODEL, VARNAME, SY, EY, nt, c, fi, tmp,
                   fd, gs, temp, k, q, out, FILL_VALUE>>

(* lines 80-89: nt is the sum of the files' time lengths *)
CountSteps ==
    /\ pc = "count"
    /\ LET files == Sorted(input_files)
       IN  nt' = SumSeq([i \in 1..Len(files) |-> disk[files[i]]])
    /\ pc' = "alloc"
    /\ UNCHANGED <<err, MODEL, VARNAME, SY, EY, input_files, disk, c, fi, tmp,
                   fd, gs, temp, k, q, out, FILL_VALUE>>

DimsBoundAlways(files) == TRUE

(* lines 82-89: nx, ny and fv are bound in the loop's body, so only if a   *)
(* file was opened                                                         *)
DimsBound(files) == files # {}

(* lines 91-103: line 99 reads ny, nx and fv *)
Allocate ==
    /\ pc = "alloc"
    /\ IF ~DimsBound(input_files)
       THEN /\ pc' = "error"
            /\ err' = "UnboundLocalError"
            /\ UNCHANGED <<fd, c, fi>>
       ELSE /\ pc' = IF input_files = {} THEN "mask" ELSE "read"
            /\ err' = err
            /\ fd' = [data |-> Filled(nt, ZeroField), mask |-> Filled(nt, NoMask),
                      time |-> Filled(nt, 0)]
            /\ c' = 0
            /\ fi' = 1
    /\ UNCHANGED <<MODEL, VARNAME, SY, EY, input_files, disk, nt, tmp,
                   gs, temp, k, q, out, FILL_VALUE>>

(* the counter after one file is read: line 103 sets it, the loop body     *)
(* (lines 105-132) never assigns it                                        *)
NextCounter(cc, t) == cc

(* lines 105-132: one file of sorted(input_files) *)
ReadFile ==
    /\ pc = "read"
    /\ LET files == Sorted(input_files)
           FILE == files[fi]
           t == disk[FILE]
       IN  /\ \E ct \in ContentsOf(t) :
                LET raw == RawField(FILE, VARNAME, t, ct)
                IN  /\ tmp' = raw
                    /\ fd' = [data |-> SliceAssign(fd.data, c,
                                  [j \in 1..t |-> [cell \in Cells |->
                                      RMul(RInt(ScaleFactor(VARNAME)), raw[j][cell])]]),
                              mask |-> SliceAssign(fd.mask, c,
                                  [j \in 1..t |-> [cell \in Cells |-> raw[j][cell] = RInt(fv)]]),
                              time |-> SliceAssign(fd.time, c,
                                  [j \in 1..t |-> DecimalYear(FILE, DeltaTime(t)[j])])]
           /\ c' = NextCounter(c, t)
           /\ fi' = fi + 1
           /\ pc' = IF fi = Len(files) THEN "mask" ELSE "read"
    /\ UNCHANGED <<err, MODEL, VARNAME, SY, EY, input_files, disk, nt,
                   gs, temp, k, q, out, FILL_VALUE>>

-----------------------------------------------------------------------------
(* Smoother *)

(* the kernel's weights: positive, symmetric, decreasing, zero beyond the  *)
(* radius int(truncate*SIGMA + 0.5); normalised by their sum               *)
Weight(o) == KernelRadius + 1 - Abs(o)
Offsets == (-KernelRadius)..KernelRadius
WeightSum == SumSeq([i \in 1..(2*KernelRadius+1) |-> Weight(i - KernelRadius - 1)])

(* scipy.ndimage.gaussian_filter(f, SIGMA, mode='constant', cval=0) at one *)
(* cell: positions off the grid contribute 0                               *)
BlurAt(f, cell) ==
    LET offs == SetToSeq({o \in Offsets \X Offsets :
                            <<cell[1] + o[1], cell[2] + o[2]>> \in Cells})
    IN  RSumSeq([i \in 1..Len(offs) |->
                   RMul(Rat(Weight(offs[i][1]) * Weight(offs[i][2]), WeightSum * WeightSum),
                        f[<<cell[1] + offs[i][1], cell[2] + offs[i][2]>>])])

Blur(f) == [cell \in Cells |-> BlurAt(f, cell)]

(* line 135: 1.0 - any(mask over time) *)
StaticMask(mask) ==
    [cell \in Cells |-> IF \E j \in 1..Len(mask) : mask[j][cell] THEN Zero ELSE RInt(1)]

(* np.ceil of a rational *)
Ceil(r) == IF r.n % r.d = 0 THEN r.n \div r.d ELSE (r.n \div r.d) + 1

RetainedExact(gmask) == {cell \in Cells : gmask[cell] = RInt(1)}

(* line 141: np.nonzero(np.ceil(gs['mask']) == 1.0) *)
Retained(gmask) == {cell \in Cells : Ceil(gmask[cell]) = 1}

(* lines 134-148 *)
BuildMask ==
    /\ pc = "mask"
    /\ LET gmask == Blur(StaticMask(fd.mask))
       IN  gs' = [mask |-> gmask, retained |-> Retained(gmask),
                  data |-> Filled(nt, [cell \in Cells |-> Zero]),
                  vmask |-> Filled(nt, NoMask),
                  cum |-> Filled(nt, [cell \in Cells |-> Zero]),
                  cmask |-> Filled(nt, NoMask)]
    /\ temp' = [cell \in Cells |-> Zero]
    /\ k' = 1
    /\ pc' = IF nt = 0 THEN "locate" ELSE "smooth"
    /\ UNCHANGED <<err, MODEL, VARNAME, SY, EY, input_files, disk, nt, c, fi, tmp,
                   fd, q, out, FILL_VALUE>>

SmoothedFieldBlurLast(t) ==
    LET temp1 == [cell \in Cells |-> IF fd.mask[t][cell] THEN Zero ELSE fd.data[t][cell]]
        temp2 == Blur(temp1)
    IN  [cell \in Cells |->
            IF cell \in gs.retained THEN RDiv(temp2[cell], gs.mask[cell])
            ELSE IF ~fd.mask[t][cell] THEN temp1[cell]
            ELSE gs.data[t][cell]]

(* lines 152-161: the smoothed field of step t *)
SmoothedField(t) ==
    LET temp1 == [cell \in Cells |-> IF fd.mask[t][cell] THEN Zero ELSE fd.data[t][cell]]
        temp2 == Blur(temp1)
    IN  [cell \in Cells |->
            IF ~fd.mask[t][cell] THEN temp1[cell]
            ELSE IF cell \in gs.retained THEN RDiv(temp2[cell], gs.mask[cell])
            ELSE gs.data[t][cell]]

(* line 163: gs['mask'] == 0.0 *)
SmoothedMask == [cell \in Cells |-> gs.mask[cell] = Zero]

AccumulateReset(acc, field) == field

(* line 165: temp += gs[VARIABLE][t,:,:] *)
Accumulate(acc, field) == [cell \in Cells |-> RAdd(acc[cell], field[cell])]

(* lines 150-167: one pass of the time loop *)
SmoothStep ==
    /\ pc = "smooth"
    /\ LET field == SmoothedField(k)
           acc == Accumulate(temp, field)
       IN  /\ temp' = acc
           /\ gs' = [gs EXCEPT !.data[k] = field,
                               !.vmask[k] = SmoothedMask,
                               !.cum[k] = acc,
                               !.cmask[k] = SmoothedMask]
    /\ k' = k + 1
    /\ pc' = IF k = nt THEN "locate" ELSE "smooth"
    /\ UNCHANGED <<err, MODEL, VARNAME, SY, EY, input_files, disk, nt, c, fi, tmp,
                   fd, q, out, FILL_VALUE>>

-----------------------------------------------------------------------------
(* Spatial locator *)

(* the query points: npts = len(tdec) *)
QueryIdx == {1, 2}

(* native coordinates <<ix, iy>> the projection may return for a point, in *)
(* half grid spacings: the first node, the midpoint of the first cell and  *)
(* the last node (outside the hull when the field ends before it)          *)
QueryCoords == {<<0, 0>>, <<1, 1>>, <<2 * (NX-1), 2 * (NY-1)>>}

(* the decimal-year times whose floor lies in the years read (lines 67-69) *)
(* within a year: before the first step, on it, between the first two, on  *)
(* the last a file can hold, after it                                      *)
QueryTicks == {0, 1, 2, TicksPerYear - 2, TicksPerYear - 1}
QueryTimes == {YearNum(y) * TicksPerYear + tk : y \in {SY, EY}, tk \in QueryTicks}

FloorYear(t) == t \div TicksPerYear

(* fd['x'], fd['y']: the nodes' native coordinates in half grid spacings *)
GridX == [i \in 1..NX |-> 2 * (i-1)]
GridY == [i \in 1..NY |-> 2 * (i-1)]

(* line 178: the coordinates <<x, y>> of the retained nodes *)
HullPoints(retained) == {<<GridX[cell[2]+1], GridY[cell[1]+1]>> : cell \in retained}

Cross(a, b, p) == (b[1]-a[1]) * (p[2]-a[2]) - (b[2]-a[2]) * (p[1]-a[1])

InTriangle(a, b, cc, p) ==
    LET d1 == Cross(a, b, p)
        d2 == Cross(b, cc, p)
        d3 == Cross(cc, a, p)
    IN  \/ (d1 >= 0 /\ d2 >= 0 /\ d3 >= 0)
        \/ (d1 <= 0 /\ d2 <= 0 /\ d3 <= 0)

(* scipy.spatial.Delaunay needs three points that are not on one line *)
Triangulable(pts) == \E a, b, cc \in pts : Cross(a, b, cc) # 0

(* line 181: triangle.find_simplex(p) >= 0, the point lies in a triangle   *)
(* of the triangulation, that is in the closed convex hull of pts          *)
InHull(pts, p) ==
    \E a, b, cc \in pts : Cross(a, b, cc) # 0 /\ InTriangle(a, b, cc, p)

(* lines 169-188: tdec, X and Y are first read per point here; X, Y go     *)
(* through pyproj.transform, whose result is any of QueryCoords; the years *)
(* of tdec are those the file pattern was built from                       *)
Locate ==
    /\ pc = "locate"
    /\ LET pts == HullPoints(gs.retained)
       IN  IF ~Triangulable(pts)
           THEN /\ pc' = "error"
                /\ err' = "QhullError"
                /\ UNCHANGED <<q, out>>
           ELSE /\ \E td \in [QueryIdx -> QueryTimes], xy \in [QueryIdx -> QueryCoords] :
                     /\ td[1] <= td[2]
                     /\ \E i \in QueryIdx : FloorYear(td[i]) = YearNum(SY)
                     /\ \E i \in QueryIdx : FloorYear(td[i]) = YearNum(EY)
                     /\ q' = [tdec |-> td,
                              ix |-> [i \in QueryIdx |-> xy[i][1]],
                              iy |-> [i \in QueryIdx |-> xy[i][2]],
                              valid |-> [i \in QueryIdx |-> InHull(pts, xy[i])]]
                /\ out' = [data |-> [i \in QueryIdx |-> Zero],
                           mask |-> [i \in QueryIdx |-> FALSE],
                           interpolation |-> [i \in QueryIdx |-> 0],
                           fill_value |-> fv]
                /\ pc' = "interpolate"
                /\ err' = err
    /\ UNCHANGED <<MODEL, VARNAME, SY, EY, input_files, disk, nt, c, fi, tmp,
                   fd, gs, temp, k, FILL_VALUE>>

-----------------------------------------------------------------------------
(* Temporal resolver *)

RECURSIVE SeqMin(_)
SeqMin(s) == IF Len(s) = 1 THEN s[1]
             ELSE LET m == SeqMin(Tail(s)) IN IF s[1] < m THEN s[1] ELSE m

RECURSIVE SeqMax(_)
SeqMax(s) == IF Len(s) = 1 THEN s[1]
             ELSE LET m == SeqMax(Tail(s)) IN IF s[1] > m THEN s[1] ELSE m

InRecordOpen(i) == q.tdec[i] > SeqMin(fd.time) /\ q.tdec[i] < SeqMax(fd.time) /\ q.valid[i]

(* the three selections of lines 191-194, 209-212 and 237-240 *)
InRecord(i) == q.tdec[i] >= SeqMin(fd.time) /\ q.tdec[i] <= SeqMax(fd.time) /\ q.valid[i]
BeforeRecord(i) == q.tdec[i] < SeqMin(fd.time) /\ q.valid[i]
AfterRecord(i) == q.tdec[i] > SeqMax(fd.time) /\ q.valid[i]

StrictlyAscending(s) == \A i \in 1..(Len(s)-1) : s[i] < s[i+1]

(* one axis of a linear interpolation: the two neighbours of p on the grid *)
(* and their weights; p lies within the grid                               *)
AxisWeights(grid, p) ==
    LET n == Len(grid)
        below == {i \in 1..(n-1) : grid[i] <= p}
        i == CHOOSE i \in below : \A j \in below : j <= i
        w == Rat(p - grid[i], grid[i+1] - grid[i])
    IN  <<[idx |-> i, w |-> RAdd(RInt(1), RMul(RInt(-1), w))], [idx |-> i+1, w |-> w]>>

InGrid(grid, p) == grid[1] <= p /\ p <= grid[Len(grid)]

(* bilinear interpolation of a field (cell -> rational) at native (px, py) *)
Bilinear(field, px, py) ==
    LET wy == AxisWeights(GridY, py)
        wx == AxisWeights(GridX, px)
    IN  RSumSeq([n \in 1..4 |->
            LET a == wy[((n-1) \div 2) + 1]
                b == wx[((n-1) % 2) + 1]
            IN  RMul(RMul(a.w, b.w), field[<<a.idx - 1, b.idx - 1>>])])

(* RegularGridInterpolator((time, y, x), values) at (t, py, px) *)
Trilinear(values, t, py, px) ==
    LET wt == AxisWeights(fd.time, t)
    IN  RAdd(RMul(wt[1].w, Bilinear(values[wt[1].idx], px, py)),
             RMul(wt[2].w, Bilinear(values[wt[2].idx], px, py)))

(* a boolean mask as the floats the interpolators work on *)
AsFloat(mask) == [cell \in Cells |-> IF mask[cell] THEN RInt(1) ELSE Zero]

InterpolatedRate == gs.data

(* the field the interpolators are built on (lines 196-197, 220-221)       *)
InterpolatedField == gs.cum

(* lines 190-206 *)
Interpolate ==
    /\ pc = "interpolate"
    /\ LET ind == {i \in QueryIdx : InRecord(i)}
       IN  IF ind = {}
           THEN pc' = "backward" /\ UNCHANGED <<err, out>>
           ELSE IF \/ ~StrictlyAscending(fd.time)
                   \/ \E i \in ind : ~InGrid(GridX, q.ix[i]) \/ ~InGrid(GridY, q.iy[i])
           THEN pc' = "error" /\ err' = "ValueError" /\ UNCHANGED out
           ELSE /\ out' = [out EXCEPT
                      !.data = [i \in QueryIdx |->
                          IF i \in ind
                          THEN Trilinear(InterpolatedField, q.tdec[i], q.iy[i], q.ix[i])
                          ELSE out.data[i]],
                      !.mask = [i \in QueryIdx |->
                          IF i \in ind
                          THEN Trilinear([j \in 1..nt |-> AsFloat(gs.cmask[j])],
                                         q.tdec[i], q.iy[i], q.ix[i]) # Zero
                          ELSE out.mask[i]],
                      !.interpolation = [i \in QueryIdx |->
                          IF i \in ind THEN 1 ELSE out.interpolation[i]]]
                /\ pc' = "backward"
                /\ err' = err
    /\ UNCHANGED <<MODEL, VARNAME, SY, EY, input_files, disk, nt, c, fi, tmp,
                   fd, gs, temp, k, q, FILL_VALUE>>

(* regress_model(fd['time'], DATA[n,:], tdec[v], ORDER=2, CYCLES=...): the *)
(* fitted value at the query time is any number; the fill value is one     *)
RegressOutcomes(series) == {RInt(fv), series[1]}

(* lines 215-234 and 243-262: the extrapolation of the points of ind *)
Extrapolate(ind, tag, fit) ==
    [out EXCEPT
        !.data = [i \in QueryIdx |-> IF i \in ind THEN fit[i] ELSE out.data[i]],
        !.mask = [i \in QueryIdx |->
            IF i \in ind
            THEN \E j \in 1..nt : Bilinear(AsFloat(gs.cmask[j]), q.ix[i], q.iy[i]) # Zero
            ELSE out.mask[i]],
        !.interpolation = [i \in QueryIdx |-> IF i \in ind THEN tag ELSE out.interpolation[i]]]

Series(i) == [j \in 1..nt |-> Bilinear(InterpolatedField[j], q.ix[i], q.iy[i])]

(* lines 208-234 *)
ExtrapolateBackward ==
    /\ pc = "backward"
    /\ LET ind == {i \in QueryIdx : BeforeRecord(i)}
       IN  IF ind = {}
           THEN out' = out
           ELSE \E fit \in [ind -> UNION {RegressOutcomes(Series(i)) : i \in ind}] :
                    /\ \A i \in ind : fit[i] \in RegressOutcomes(Series(i))
                    /\ out' = Extrapolate(ind, 2, fit)
    /\ pc' = "forward"
    /\ UNCHANGED <<err, MODEL, VARNAME, SY, EY, input_files, disk, nt, c, fi, tmp,
                   fd, gs, temp, k, q, FILL_VALUE>>

(* lines 236-262 *)
ExtrapolateForward ==
    /\ pc = "forward"
    /\ LET ind == {i \in QueryIdx : AfterRecord(i)}
       IN  IF ind = {}
           THEN out' = out
           ELSE \E fit \in [ind -> UNION {RegressOutcomes(Series(i)) : i \in ind}] :
                    /\ \A i \in ind : fit[i] \in RegressOutcomes(Series(i))
                    /\ out' = Extrapolate(ind, 3, fit)
    /\ pc' = "finalize"
    /\ UNCHANGED <<err, MODEL, VARNAME, SY, EY, input_files, disk, nt, c, fi, tmp,
                   fd, gs, temp, k, q, FILL_VALUE>>

(* the values of the argument FILL_VALUE: not given (None), or a number *)
FillArgs == {[given |-> FALSE, value |-> 0], [given |-> TRUE, value |-> 0],
             [given |-> TRUE, value |-> -1]}

(* line 268: `if FILL_VALUE:`, the truth value of the argument *)
FillRequested(arg) == arg.given /\ arg.value # 0

(* lines 264-273; FILL_VALUE is first read here *)
Finalize ==
    /\ pc = "finalize"
    /\ \E arg \in FillArgs :
         /\ FILL_VALUE' = arg
         /\ LET masked == [i \in QueryIdx |->
                            out.mask[i] \/ out.data[i] = RInt(out.fill_value)]
            IN  out' = IF FillRequested(arg)
                       THEN [out EXCEPT
                               !.mask = masked,
                               !.fill_value = arg.value,
                               !.data = [i \in QueryIdx |->
                                   IF masked[i] THEN RInt(arg.value) ELSE out.data[i]]]
                       ELSE [out EXCEPT !.mask = masked]
    /\ pc' = "done"
    /\ UNCHANGED <<err, MODEL, VARNAME, SY, EY, input_files, disk, nt, c, fi, tmp,
                   fd, gs, temp, k, q>>

Next ==
    \/ ResolvePattern
    \/ ListFiles
    \/ CountSteps
    \/ Allocate
    \/ ReadFile
    \/ BuildMask
    \/ SmoothStep
    \/ Locate
    \/ Interpolate
    \/ ExtrapolateBackward
    \/ ExtrapolateForward
    \/ Finalize

Spec == Init /\ [][Next]_vars

-----------------------------------------------------------------------------
(* Properties *)

(* within the smoothing loop, or just past it: no later step assigns fd,   *)
(* gs, temp or k                                                           *)
Smoothing == pc \in {"smooth", "locate"}
(* the time steps the smoothing loop has processed *)
Processed == 1..(k-1)

(* the native coordinates of a grid node *)
NodeCoord(cell) == <<GridX[cell[2]+1], GridY[cell[1]+1]>>
AtNode(i, cell) == <<q.ix[i], q.iy[i]>> = NodeCoord(cell)
AlwaysValid(cell) == \A j \in 1..nt : ~fd.mask[j][cell]

(* C1: every query point outside the convex hull of the retained nodes is  *)
(* returned masked, with provenance tag 0, whatever its time and whatever  *)
(* FILL_VALUE is.                                                          *)
C1_OutsideHullMasked ==
    pc = "done" =>
        \A i \in QueryIdx : ~q.valid[i] => out.mask[i] /\ out.interpolation[i] = 0

(* C2: the loader concatenates the matched files in sorted order: the file *)
(* just read, the i-th, has its steps (values, mask, timestamps) at the    *)
(* indices n_1+...+n_(i-1)+j, and the loaded timestamps increase.          *)
C2_Concatenated ==
    (pc \in {"read", "mask"} /\ fi > 1) =>
        LET files == Sorted(input_files)
            i == fi - 1
            off == SumSeq([m \in 1..(i-1) |-> disk[files[m]]])
        IN  /\ nt = SumSeq([m \in 1..Len(files) |-> disk[files[m]]])
            /\ \A j \in 1..disk[files[i]] :
                 /\ fd.data[off + j] =
                      [cell \in Cells |-> RMul(RInt(ScaleFactor(VARNAME)), tmp[j][cell])]
                 /\ fd.mask[off + j] = [cell \in Cells |-> tmp[j][cell] = RInt(fv)]
                 /\ fd.time[off + j] = DecimalYear(files[i], DeltaTime(disk[files[i]])[j])
            /\ (pc = "mask" => StrictlyAscending(fd.time))

(* C3, as claimed: a query at a grid node that is valid at every time step *)
(* and at one of the record's own timestamps returns the original (scaled) *)
(* value of the node at that time step, for every time step.               *)
C3_RoundTripOriginal ==
    pc = "done" =>
        \A i \in QueryIdx : \A cell \in Cells : \A j \in 1..nt :
            (AtNode(i, cell) /\ AlwaysValid(cell) /\ q.tdec[i] = fd.time[j])
                => out.data[i] = fd.data[j][cell]

(* C3, amended: such a query returns the sum of the node's original        *)
(* (scaled) values over the time steps up to and including that one, with  *)
(* provenance tag 1; this is the original value at the first step only.    *)
C3_RoundTripCumulative ==
    pc = "done" =>
        \A i \in QueryIdx : \A cell \in Cells : \A j \in 1..nt :
            (AtNode(i, cell) /\ AlwaysValid(cell) /\ q.tdec[i] = fd.time[j])
                => /\ out.data[i] = RSumSeq([m \in 1..j |-> fd.data[m][cell]])
                   /\ out.interpolation[i] = 1
                   /\ ~out.mask[i]
                   /\ (j = 1 => out.data[i] = fd.data[1][cell])

C3_Witness ==
    /\ pc = "done"
    /\ \E i \in QueryIdx : \E cell \in Cells :
         /\ AtNode(i, cell) /\ AlwaysValid(cell)
         /\ nt >= 2 /\ q.tdec[i] = fd.time[2]
         /\ out.data[i] # fd.data[2][cell]
         /\ out.data[i] = RAdd(fd.data[1][cell], fd.data[2][cell])

C5_FillApplied ==
    pc = "done" =>
        IF FILL_VALUE.given
        THEN /\ out.fill_value = FILL_VALUE.value
             /\ \A i \in QueryIdx : out.mask[i] => out.data[i] = RInt(FILL_VALUE.value)
        ELSE out.fill_value = fv

C7_NoDataFails ==
    (pc \notin {"resolve", "list"} /\ input_files = {}) =>
        /\ pc \in {"count", "alloc", "error"}
        /\ (pc = "error" => err = "UnboundLocalError")
        /\ (pc # "count" => nt = 0)
        /\ fd = NoFd /\ gs = NoGs /\ q = NoQuery /\ out = NoOut

C7_Witness ==
    MODEL = "FGRN055" /\ input_files = {} /\ pc = "error" /\ err = "UnboundLocalError"

(* C8: after the loop has processed steps 1..t, the cumulative field at t  *)
(* is the sum of the smoothed field over steps 1..t at every cell, and its *)
(* mask is the smoothed field's mask at t.                                 *)
C8_CumulativeIsPrefixSum ==
    Smoothing =>
        \A t \in Processed :
            /\ \A cell \in Cells :
                 gs.cum[t][cell] = RSumSeq([m \in 1..t |-> gs.data[m][cell]])
            /\ gs.cum[1] = gs.data[1]
            /\ gs.cmask[t] = gs.vmask[t]
            /\ (t = k - 1 => temp = gs.cum[t])

C8_Witness ==
    /\ Smoothing
    /\ k - 1 >= 2
    /\ \E cell \in Cells :
         /\ gs.data[1][cell] # Zero /\ gs.data[2][cell] # Zero
         /\ gs.cum[2][cell] = RAdd(gs.data[1][cell], gs.data[2][cell])

(* the cells within the kernel's support around a cell *)
Support(cell) ==
    {<<cell[1] + o[1], cell[2] + o[2]>> : o \in Offsets \X Offsets}
EverInvalid(cell) == \E j \in 1..nt : fd.mask[j][cell]

(* C9, as claimed: a cell is retained only if no cell that is invalid in   *)
(* some time step and no position off the grid lies within the kernel's    *)
(* support around it.                                                      *)
C9_RetainedOnlyIfClean ==
    Smoothing =>
        \A cell \in gs.retained :
            \A n \in Support(cell) : n \in Cells /\ ~EverInvalid(n)

(* C9, amended: a cell is retained iff the blurred complement of the       *)
(* any-step-invalid mask is above 0 (and at most 1) there, that is iff     *)
(* some cell valid at every time step lies within the kernel's support     *)
(* around it; the cells not retained are masked at every processed step of *)
(* the smoothed and cumulative fields, the retained ones are not.          *)
C9_RetainedIffSomeValid ==
    Smoothing =>
        /\ \A cell \in Cells :
             cell \in gs.retained <=>
                 \E n \in Support(cell) : n \in Cells /\ ~EverInvalid(n)
        /\ \A t \in Processed : \A cell \in Cells :
             /\ gs.vmask[t][cell] = (cell \notin gs.retained)
             /\ gs.cmask[t][cell] = (cell \notin gs.retained)

C9_Witness ==
    /\ Smoothing
    /\ k - 1 = nt
    /\ \E cell \in gs.retained : EverInvalid(cell)
    /\ \E cell \in Cells : cell \notin gs.retained /\ gs.cmask[nt][cell]

(* C10: at every processed step t, a cell valid in the original field at t *)
(* holds the original (scaled) value, retained or not; a retained cell     *)
(* invalid at t holds the blurred value over the blurred mask; any other   *)
(* cell holds 0.                                                           *)
C10_ValidKeepOriginal ==
    Smoothing =>
        \A t \in Processed : \A cell \in Cells :
            LET zeroed == [n \in Cells |-> IF fd.mask[t][n] THEN Zero ELSE fd.data[t][n]]
            IN  IF ~fd.mask[t][cell] THEN gs.data[t][cell] = fd.data[t][cell]
                ELSE IF cell \in gs.retained
                     THEN gs.data[t][cell] = RDiv(BlurAt(zeroed, cell), gs.mask[cell])
                     ELSE gs.data[t][cell] = Zero

C10_Witness ==
    /\ Smoothing
    /\ \E t \in Processed : \E cell \in Cells :
         ~fd.mask[t][cell] /\ cell \notin gs.retained
           /\ gs.data[t][cell] = fd.data[t][cell] /\ gs.data[t][cell] # Zero
    /\ \E t \in Processed : \E cell \in gs.retained :
         /\ ~fd.mask[t][cell]
         /\ gs.data[t][cell] # RDiv(BlurAt(fd.data[t], cell), gs.mask[cell])
    /\ \E t \in Processed : \E cell \in gs.retained :
         fd.mask[t][cell] /\ gs.data[t][cell] # Zero

=============================================================================
